---- MODULE Spec2Model ----
(***************************************************************************)
(* A model of fnkit: the result/option containers and their combinators.   *)
(*                                                                         *)
(* Python values are modelled as atoms (strings).  Lists are objects on a  *)
(* heap and are named by reference, so that two containers holding the     *)
(* same list object are distinguishable from two containers holding equal  *)
(* lists.  A user-supplied function is modelled by the outcome of its one  *)
(* invocation: it either raises an exception or returns a value.           *)
(***************************************************************************)
EXTENDS Integers, Sequences, FiniteSets, Bags, TLC

\* Bound on the number of calls made in one behaviour.
MaxSteps == 3

\* Bound on the length of the list given to a free function.
MaxLen == 3

\* Longest list of computations given to parallel, race and sequence.
MaxComps == 3

\* Success values and exception instances the user code can produce.
Vals == {"v1", "v2"}
Excs == {"e1", "e2"}
Atoms == Vals \cup Excs

\* isinstance(x, Exception)
IsException(x) == x \in Excs

\* The error lists a user function can hand to a constructor.
ErrLists == {<<>>, <<"e1">>, <<"e2", "e1">>}

\* No object / no value / no exception.
NoRef == 0
NoAtom == "none"
NoObj == [value |-> NoAtom, errors |-> NoRef]

\* The slot of a MultiErrorResult holds a plain value or a list object.
AtomVal(a) == [atom |-> a, list |-> NoRef]
ListVal(r) == [atom |-> NoAtom, list |-> r]
NoVal == AtomVal(NoAtom)
NoMer == [value |-> NoVal, errors |-> NoRef]

\* Python's None, and no Option.
PyNone == "None"
NoOpt == [cls |-> "none", value |-> PyNone]

VARIABLES
    heap,      \* the list objects: heap[r] is the content of list r
    steps,     \* number of calls made so far
    cr,        \* the ChainedResult the next call is made on
    crLast,    \* the last call on a ChainedResult and what it did
    crOrigin,  \* how the first ChainedResult was constructed
    crFail,    \* n, while the calls so far are n chain calls with failing step functions; else -1
    crOps,     \* the operations called so far on ChainedResults
    mer,       \* the MultiErrorResult the next call is made on
    merLast,   \* the last call on a MultiErrorResult and what it did
    merOps,    \* the operations called so far on MultiErrorResults
    merIn,     \* the error list of the receiver of the last map, and its content then
    input,     \* the argument of a free function
    fLast,     \* the free function called and its outcome
    opt,       \* the Option the next call is made on
    optLast,   \* the last call on an Option and what it did
    ars,       \* the AsyncResult objects: ars[i] is object i
    arLast,    \* the last call on an AsyncResult and what it did
    tasks,     \* the calls of Await and map_async that are suspended
    co,        \* the coroutine made by a free function over computations
    red,       \* the call of reduce: its arguments and what it did
    resObj,    \* the Result the next call is made on
    resLast    \* the last call on a Result or of a constructor and what it did

crVars == <<cr, crLast, crOrigin, crFail, crOps>>
merVars == <<mer, merLast, merOps, merIn>>
freeVars == <<input, fLast, red>>
optVars == <<opt, optLast>>
arVars == <<ars, arLast, tasks, co>>
resVars == <<resObj, resLast>>
vars == <<heap, steps, crVars, merVars, freeVars, optVars, arVars, resVars>>

\* A new list object with content s.
Alloc(h, s) == [heap |-> Append(h, s), ref |-> Len(h) + 1]

(***************************************************************************)
(* ChainedResult                                                           *)
(***************************************************************************)

\* ChainedResult.__init__(value, errors): errors = NoRef stands for None.
ChainedResult_init(h, value, errors) ==
    IF errors # NoRef
    THEN [heap |-> h, obj |-> [value |-> value, errors |-> errors]]
    ELSE LET a == Alloc(h, <<>>)
         IN [heap |-> a.heap, obj |-> [value |-> value, errors |-> a.ref]]

\* The outcome of one call: the heap after it, the object returned (NoObj when
\* the call raised or returns no container), the plain value returned, the
\* exception that left the call, and whether the user function was invoked
\* and whether it raised.
Outcome(h, ret, val, raised, called, fnRaised) ==
    [heap |-> h, ret |-> ret, val |-> val, raised |-> raised,
     called |-> called, fnRaised |-> fnRaised]

\* Step functions for chain and or_else: raise atom, or return
\* ChainedResult(atom, list(errs)).
ChainFns ==
    [k : {"raise"}, atom : Excs, errs : {<<>>}]
    \cup [k : {"ret"}, atom : Atoms, errs : ErrLists]

\* Functions for map and map_err: raise atom, or return atom.
ValueFns == [k : {"raise"}, atom : Excs] \cup [k : {"ret"}, atom : Atoms]

\* func(self.value) for a function that builds and returns a ChainedResult.
CallChainFn(h, f) ==
    LET a == Alloc(h, f.errs)
        c == ChainedResult_init(a.heap, f.atom, a.ref)
    IN Outcome(c.heap, c.obj, NoAtom, "none", TRUE, FALSE)

\* Mutant: the failure is appended to the receiver's own list, in place.
ChainedResult_except_InPlace(h, self, e) ==
    LET h2 == [h EXCEPT ![self.errors] = Append(@, e)]
        c == ChainedResult_init(h2, e, self.errors)
    IN Outcome(c.heap, c.obj, NoAtom, "none", TRUE, TRUE)

\* The except branch of chain and map: ChainedResult(e, self.errors + [e]).
ChainedResult_except(h, self, e) ==
    LET a == Alloc(h, Append(h[self.errors], e))
        c == ChainedResult_init(a.heap, e, a.ref)
    IN Outcome(c.heap, c.obj, NoAtom, "none", TRUE, TRUE)

\* Mutant: the short circuit records the error once more.
ChainedResult_short_Appending(h, self) ==
    LET a == Alloc(h, Append(h[self.errors], self.value))
        c == ChainedResult_init(a.heap, self.value, a.ref)
    IN Outcome(c.heap, c.obj, NoAtom, "none", FALSE, FALSE)

\* The short circuit of chain and map: ChainedResult(self.value, self.errors).
ChainedResult_short(h, self) ==
    LET c == ChainedResult_init(h, self.value, self.errors)
    IN Outcome(c.heap, c.obj, NoAtom, "none", FALSE, FALSE)

\* Mutant: chain without the test of the slot.
ChainedResult_chain_NoShortCircuit(h, self, f) ==
    IF f.k = "raise"
    THEN ChainedResult_except(h, self, f.atom)
    ELSE CallChainFn(h, f)

ChainedResult_chain(h, self, f) ==
    IF IsException(self.value)
    THEN ChainedResult_short(h, self)
    ELSE IF f.k = "raise"
         THEN ChainedResult_except(h, self, f.atom)
         ELSE CallChainFn(h, f)

ChainedResult_map(h, self, f) ==
    IF IsException(self.value)
    THEN ChainedResult_short(h, self)
    ELSE IF f.k = "raise"
         THEN ChainedResult_except(h, self, f.atom)
         ELSE LET c == ChainedResult_init(h, f.atom, self.errors)
              IN Outcome(c.heap, c.obj, NoAtom, "none", TRUE, FALSE)

ChainedResult_map_err(h, self, f) ==
    IF IsException(self.value)
    THEN IF f.k = "raise"
         THEN Outcome(h, NoObj, NoAtom, f.atom, TRUE, TRUE)
         ELSE LET c == ChainedResult_init(h, f.atom, self.errors)
              IN Outcome(c.heap, c.obj, NoAtom, "none", TRUE, FALSE)
    ELSE Outcome(h, self, NoAtom, "none", FALSE, FALSE)

ChainedResult_or_else(h, self, fn) ==
    IF IsException(self.value)
    THEN IF fn.k = "raise"
         THEN Outcome(h, NoObj, NoAtom, fn.atom, TRUE, TRUE)
         ELSE CallChainFn(h, fn)
    ELSE Outcome(h, self, NoAtom, "none", FALSE, FALSE)

ChainedResult_unwrap(h, self) ==
    IF IsException(self.value)
    THEN Outcome(h, NoObj, NoAtom, "ValueError", FALSE, FALSE)
    ELSE Outcome(h, NoObj, self.value, "none", FALSE, FALSE)

ChainedResult_expect(h, self) ==
    IF IsException(self.value)
    THEN Outcome(h, NoObj, NoAtom, "ValueError", FALSE, FALSE)
    ELSE Outcome(h, NoObj, self.value, "none", FALSE, FALSE)

\* The record of a call: the operation, the receiver and the content of its
\* error list before the call, and the outcome.
CallRecord(op, self, fn, h, out) ==
    [op |-> op, self |-> self, selfErrors |-> h[self.errors],
     fnFails |-> fn.k = "raise", fnAtom |-> fn.atom,
     ret |-> out.ret, val |-> out.val, raised |-> out.raised,
     called |-> out.called, fnRaised |-> out.fnRaised]

NoFn == [k |-> "none", atom |-> NoAtom]

\* A call on cr; the caller goes on with the container the call returned, if any.
CrCall(op, fn, out) ==
    /\ cr # NoObj
    /\ steps < MaxSteps
    /\ steps' = steps + 1
    /\ heap' = out.heap
    /\ crLast' = CallRecord(op, cr, fn, heap, out)
    /\ cr' = IF out.ret # NoObj THEN out.ret ELSE cr
    /\ crFail' = IF op = "chain" /\ fn.k = "raise" /\ crFail >= 0
                 THEN crFail + 1 ELSE -1
    /\ crOps' = crOps \cup {op}
    /\ UNCHANGED <<crOrigin, merVars, freeVars, optVars, resVars, arVars>>

CrChain == \E f \in ChainFns : CrCall("chain", f, ChainedResult_chain(heap, cr, f))
CrMap == \E f \in ValueFns : CrCall("map", f, ChainedResult_map(heap, cr, f))
CrMapErr == \E f \in ValueFns : CrCall("map_err", f, ChainedResult_map_err(heap, cr, f))
CrOrElse == \E f \in ChainFns : CrCall("or_else", f, ChainedResult_or_else(heap, cr, f))
CrUnwrap == CrCall("unwrap", NoFn, ChainedResult_unwrap(heap, cr))
CrExpect == CrCall("expect", NoFn, ChainedResult_expect(heap, cr))

NoCall ==
    [op |-> "init", self |-> NoObj, selfErrors |-> <<>>,
     fnFails |-> FALSE, fnAtom |-> NoAtom, ret |-> NoObj, val |-> NoAtom,
     raised |-> "none", called |-> FALSE, fnRaised |-> FALSE]

NoMerCall ==
    [op |-> "init", self |-> NoMer, selfErrors |-> <<>>,
     fnFails |-> FALSE, fnAtom |-> NoAtom, ret |-> NoMer, val |-> NoVal,
     raised |-> "none", called |-> FALSE, fnRaised |-> FALSE]

NoFreeCall == [op |-> "init", arg |-> NoVal, error |-> NoAtom, ret |-> NoMer, raised |-> "none"]

NoOptCall ==
    [op |-> "init", self |-> NoOpt, fnFails |-> FALSE, fnAtom |-> NoAtom,
     ret |-> NoOpt, val |-> NoAtom, raised |-> "none",
     called |-> FALSE, fnRaised |-> FALSE]

\* A computation: what the attribute holds (kind), the object a lambda closes
\* over (src), the function a lambda applies (fn), the value a lambda returns
\* (const), and who built it (by), with the error its receiver had then (was).
Computation(kind, src, fn, const, by, was) ==
    [kind |-> kind, src |-> src, fn |-> fn, const |-> const, by |-> by, was |-> was]

NoComp == Computation("none", 0, NoFn, NoAtom, "none", PyNone)

\* No AsyncResult.
NoAr == [comp |-> NoComp, value |-> PyNone, error |-> PyNone,
         preErr |-> PyNone, awaits |-> 0, runs |-> 0]

NoArCall ==
    [op |-> "init", self |-> 0, pre |-> NoAr, fnFails |-> FALSE, fnAtom |-> NoAtom,
     ret |-> 0, val |-> NoAtom, raised |-> "none", called |-> FALSE,
     compOut |-> NoFn]

\* No coroutine: the computations it is given (inputs), how far its body is
\* (state), the computations begun and those completed, in completion order,
\* and what the body returned or raised.
NoCo ==
    [op |-> "none", inputs |-> <<>>, state |-> "none", started |-> {},
     finished |-> <<>>, result |-> <<>>, raised |-> "none",
     fn |-> NoFn, calls |-> 0]

\* No Result, and no call on one.
NoRes == [cls |-> "none", value |-> NoAtom]

NoResCall ==
    [op |-> "init", cls |-> "none", arg |-> NoAtom, self |-> NoRes,
     fnFails |-> FALSE, fnAtom |-> NoAtom, ret |-> NoRes, val |-> NoAtom,
     raised |-> "none", called |-> FALSE]

\* No call of reduce.
NoRed ==
    [results |-> <<>>, fn |-> NoFn, state |-> "none", ret |-> <<>>,
     raised |-> "none", calls |-> 0]

\* No ChainedResult, no MultiErrorResult, no free function in use.
IdleChained ==
    cr = NoObj /\ crLast = NoCall /\ crOrigin = "none" /\ crFail = -1 /\ crOps = {}
NoInput == [errors |-> NoRef, was |-> <<>>]
IdleMulti == mer = NoMer /\ merLast = NoMerCall /\ merOps = {} /\ merIn = NoInput
IdleFree == input = <<>> /\ fLast = NoFreeCall /\ red = NoRed
IdleOption == opt = NoOpt /\ optLast = NoOptCall
IdleAsync == ars = <<>> /\ arLast = NoArCall /\ tasks = EmptyBag /\ co = NoCo
IdleResult == resObj = NoRes /\ resLast = NoResCall

\* ChainedResult(value) or ChainedResult(value, errors), on an empty heap.
InitChained ==
    /\ steps = 0
    /\ \E v \in Atoms, given \in BOOLEAN, errs \in ErrLists :
          LET a == IF given THEN Alloc(<<>>, errs)
                   ELSE [heap |-> <<>>, ref |-> NoRef]
              c == ChainedResult_init(a.heap, v, a.ref)
          IN /\ heap = c.heap
             /\ cr = c.obj
             /\ crOrigin = IF ~given /\ ~IsException(v)
                           THEN "value_default" ELSE "other"
    /\ crLast = NoCall
    /\ crFail = 0
    /\ crOps = {}
    /\ IdleMulti /\ IdleFree /\ IdleOption /\ IdleAsync /\ IdleResult

NextChained == CrChain \/ CrMap \/ CrMapErr \/ CrOrElse \/ CrUnwrap \/ CrExpect

SpecChained == InitChained /\ [][NextChained]_vars

(***************************************************************************)
(* MultiErrorResult                                                        *)
(***************************************************************************)

\* MultiErrorResult.__init__(value, errors): errors = NoRef stands for None.
MultiErrorResult_init(h, value, errors) ==
    IF errors # NoRef
    THEN [heap |-> h, obj |-> [value |-> value, errors |-> errors]]
    ELSE LET a == Alloc(h, <<>>)
         IN [heap |-> a.heap, obj |-> [value |-> value, errors |-> a.ref]]

\* self._errors.append(error)
MultiErrorResult_add_error(h, self, error) ==
    Outcome([h EXCEPT ![self.errors] = Append(@, error)],
            NoMer, NoVal, "none", FALSE, FALSE)

\* get_errors returns the list object itself.
MultiErrorResult_get_errors(h, self) ==
    Outcome(h, NoMer, ListVal(self.errors), "none", FALSE, FALSE)

MultiErrorResult_is_multi_err(h, self) ==
    Outcome(h, NoMer, AtomVal(IF Len(h[self.errors]) > 1 THEN "True" ELSE "False"),
            "none", FALSE, FALSE)

\* Mutant: unwrap looks at the slot instead of the error sequence.
MultiErrorResult_unwrap_BySlot(h, self) ==
    IF IsException(self.value.atom)
    THEN Outcome(h, NoMer, NoVal, "ValueError", FALSE, FALSE)
    ELSE Outcome(h, NoMer, self.value, "none", FALSE, FALSE)

MultiErrorResult_unwrap(h, self) ==
    IF h[self.errors] # <<>>
    THEN Outcome(h, NoMer, NoVal, "ValueError", FALSE, FALSE)
    ELSE Outcome(h, NoMer, self.value, "none", FALSE, FALSE)

MultiErrorResult_map(h, self, f) ==
    IF h[self.errors] # <<>>
    THEN LET c == MultiErrorResult_init(h, ListVal(self.errors), self.errors)
         IN Outcome(c.heap, c.obj, NoVal, "none", FALSE, FALSE)
    ELSE IF f.k = "raise"
         THEN LET a == Alloc(h, <<f.atom>> \o h[self.errors])
                  c == MultiErrorResult_init(a.heap, ListVal(a.ref), self.errors)
              IN Outcome(c.heap, c.obj, NoVal, "none", TRUE, TRUE)
         ELSE LET a == Alloc(h, <<>>)
                  c == MultiErrorResult_init(a.heap, AtomVal(f.atom), a.ref)
              IN Outcome(c.heap, c.obj, NoVal, "none", TRUE, FALSE)

MultiErrorResult_map_err(h, self, f) ==
    IF h[self.errors] # <<>>
    THEN IF f.k = "raise"
         THEN Outcome(h, NoMer, NoVal, f.atom, TRUE, TRUE)
         ELSE LET a == Alloc(h, <<>>)
                  c == MultiErrorResult_init(a.heap, AtomVal(f.atom), a.ref)
              IN Outcome(c.heap, c.obj, NoVal, "none", TRUE, FALSE)
    ELSE Outcome(h, self, NoVal, "none", FALSE, FALSE)

\* fn() for a fallback that builds and returns MultiErrorResult(atom, list(errs)).
CallMultiFn(h, fn) ==
    LET a == Alloc(h, fn.errs)
        c == MultiErrorResult_init(a.heap, AtomVal(fn.atom), a.ref)
    IN Outcome(c.heap, c.obj, NoVal, "none", TRUE, FALSE)

MultiErrorResult_or_else(h, self, fn) ==
    IF h[self.errors] # <<>>
    THEN IF fn.k = "raise"
         THEN Outcome(h, NoMer, NoVal, fn.atom, TRUE, TRUE)
         ELSE CallMultiFn(h, fn)
    ELSE Outcome(h, self, NoVal, "none", FALSE, FALSE)

\* The methods that neither change a MultiErrorResult nor return one.
MerObservers == {"get_errors", "is_multi_err", "unwrap"}

\* A call on mer; the caller goes on with the container the call returned, if any.
MerCall(op, fn, out) ==
    /\ mer # NoMer
    /\ steps < MaxSteps
    /\ steps' = steps + 1
    /\ heap' = out.heap
    /\ merLast' = CallRecord(op, mer, fn, heap, out)
    /\ mer' = IF out.ret # NoMer THEN out.ret ELSE mer
    /\ merOps' = merOps \cup {op}
    /\ merIn' = CASE op = "map" -> [errors |-> mer.errors, was |-> heap[mer.errors]]
                  [] op \in MerObservers \cup {"add_error"} -> merIn
                  [] OTHER -> NoInput
    /\ UNCHANGED <<crVars, freeVars, optVars, resVars, arVars>>

MerAddError ==
    \E e \in Excs :
        MerCall("add_error", [k |-> "none", atom |-> e],
                MultiErrorResult_add_error(heap, mer, e))
MerGetErrors == MerCall("get_errors", NoFn, MultiErrorResult_get_errors(heap, mer))
MerIsMultiErr == MerCall("is_multi_err", NoFn, MultiErrorResult_is_multi_err(heap, mer))
MerUnwrap == MerCall("unwrap", NoFn, MultiErrorResult_unwrap(heap, mer))
MerMap == \E f \in ValueFns : MerCall("map", f, MultiErrorResult_map(heap, mer, f))
MerMapErr == \E f \in ValueFns : MerCall("map_err", f, MultiErrorResult_map_err(heap, mer, f))
MerOrElse == \E f \in ChainFns : MerCall("or_else", f, MultiErrorResult_or_else(heap, mer, f))

\* MultiErrorResult(value) or MultiErrorResult(value, errors), on an empty heap.
InitMulti ==
    /\ steps = 0
    /\ \E v \in Atoms, given \in BOOLEAN, errs \in ErrLists :
          LET a == IF given THEN Alloc(<<>>, errs)
                   ELSE [heap |-> <<>>, ref |-> NoRef]
              c == MultiErrorResult_init(a.heap, AtomVal(v), a.ref)
          IN heap = c.heap /\ mer = c.obj
    /\ merLast = NoMerCall
    /\ merOps = {}
    /\ merIn = NoInput
    /\ IdleChained /\ IdleFree /\ IdleOption /\ IdleAsync /\ IdleResult

NextMulti ==
    \/ MerAddError \/ MerGetErrors \/ MerIsMultiErr \/ MerUnwrap
    \/ MerMap \/ MerMapErr \/ MerOrElse

SpecMulti == InitMulti /\ [][NextMulti]_vars

(***************************************************************************)
(* Option, Some, NoneType                                                  *)
(***************************************************************************)

\* What an Option can hold: a value or None.
OptVals == Vals \cup {PyNone}

\* Option(value), Some(value), NoneType(value).
Option_init(cls, value) == [cls |-> cls, value |-> value]

\* The Options user code can build.
OptObjs ==
    {Option_init(c, v) : c \in {"Option", "Some"}, v \in OptVals}
    \cup {Option_init("NoneType", PyNone)}

\* Functions given to map and or_else: raise atom, or return atom.
OptValueFns ==
    [k : {"raise"}, atom : Excs, obj : {NoOpt}]
    \cup [k : {"ret"}, atom : OptVals, obj : {NoOpt}]

\* Predicates given to filter: raise atom, or return a truth value.
OptPredFns ==
    [k : {"raise"}, atom : Excs, obj : {NoOpt}]
    \cup [k : {"ret"}, atom : {"True", "False"}, obj : {NoOpt}]

\* Functions given to flat_map and and_then: raise atom, or return an Option.
OptOptionFns ==
    [k : {"raise"}, atom : Excs, obj : {NoOpt}]
    \cup [k : {"ret"}, atom : {NoAtom}, obj : OptObjs]

OptOutcome(ret, val, raised, called, fnRaised) ==
    [ret |-> ret, val |-> val, raised |-> raised,
     called |-> called, fnRaised |-> fnRaised]

PyBool(b) == IF b THEN "True" ELSE "False"

\* Option.is_some, overridden by NoneType.
Option_is_some(self) ==
    IF self.cls = "NoneType" THEN FALSE ELSE self.value # PyNone

\* Option.is_none, overridden by NoneType.
Option_is_none(self) ==
    IF self.cls = "NoneType" THEN TRUE ELSE self.value = PyNone

\* Option.__bool__, overridden by Some and NoneType.
Option_bool(self) ==
    CASE self.cls = "Some" -> TRUE
      [] self.cls = "NoneType" -> FALSE
      [] OTHER -> Option_is_some(self)

\* Option.unwrap, overridden by Some and NoneType.
Option_unwrap(self) ==
    CASE self.cls = "Some" -> OptOutcome(NoOpt, self.value, "none", FALSE, FALSE)
      [] self.cls = "NoneType" -> OptOutcome(NoOpt, NoAtom, "ValueError", FALSE, FALSE)
      [] OTHER ->
            IF Option_is_none(self)
            THEN OptOutcome(NoOpt, NoAtom, "ValueError", FALSE, FALSE)
            ELSE OptOutcome(NoOpt, self.value, "none", FALSE, FALSE)

\* fn(self._value) wrapped by the constructor of class cls.
OptApply(cls, fn) ==
    IF fn.k = "raise"
    THEN OptOutcome(NoOpt, NoAtom, fn.atom, TRUE, TRUE)
    ELSE OptOutcome(Option_init(cls, fn.atom), NoAtom, "none", TRUE, FALSE)

\* Mutant: a map that applies fn also when no value is present.
Option_map_AppliesOnAbsent(self, fn) ==
    CASE self.cls = "Some" -> OptApply("Some", fn)
      [] self.cls = "NoneType" -> OptApply("NoneType", fn)
      [] OTHER -> OptApply("Option", fn)

\* Option.map, overridden by Some and NoneType.
Option_map(self, fn) ==
    CASE self.cls = "Some" -> OptApply("Some", fn)
      [] self.cls = "NoneType" -> OptOutcome(self, NoAtom, "none", FALSE, FALSE)
      [] OTHER ->
            IF Option_is_some(self)
            THEN OptApply("Option", fn)
            ELSE OptOutcome(Option_init("Option", PyNone), NoAtom, "none", FALSE, FALSE)

Option_filter(self, predicate) ==
    IF Option_is_some(self)
    THEN IF predicate.k = "raise"
         THEN OptOutcome(NoOpt, NoAtom, predicate.atom, TRUE, TRUE)
         ELSE IF predicate.atom = "True"
              THEN OptOutcome(self, NoAtom, "none", TRUE, FALSE)
              ELSE OptOutcome(Option_init("Option", PyNone), NoAtom, "none", TRUE, FALSE)
    ELSE OptOutcome(Option_init("Option", PyNone), NoAtom, "none", FALSE, FALSE)

Option_flat_map(self, fn) ==
    IF Option_is_some(self)
    THEN IF fn.k = "raise"
         THEN OptOutcome(NoOpt, NoAtom, fn.atom, TRUE, TRUE)
         ELSE OptOutcome(fn.obj, NoAtom, "none", TRUE, FALSE)
    ELSE OptOutcome(Option_init("Option", PyNone), NoAtom, "none", FALSE, FALSE)

Option_and_then(self, fn) ==
    IF Option_is_some(self)
    THEN IF fn.k = "raise"
         THEN OptOutcome(NoOpt, NoAtom, fn.atom, TRUE, TRUE)
         ELSE OptOutcome(fn.obj, NoAtom, "none", TRUE, FALSE)
    ELSE OptOutcome(Option_init("Option", PyNone), NoAtom, "none", FALSE, FALSE)

Option_or_else(self, fn) ==
    IF Option_is_some(self)
    THEN OptOutcome(NoOpt, self.value, "none", FALSE, FALSE)
    ELSE IF fn.k = "raise"
         THEN OptOutcome(NoOpt, NoAtom, fn.atom, TRUE, TRUE)
         ELSE OptOutcome(NoOpt, fn.atom, "none", TRUE, FALSE)

Option_contains(self, value) ==
    OptOutcome(NoOpt, PyBool(Option_is_some(self) /\ self.value = value),
               "none", FALSE, FALSE)

Option_get(self, default) ==
    OptOutcome(NoOpt, IF Option_is_some(self) THEN self.value ELSE default,
               "none", FALSE, FALSE)

ObserveBool(b) == OptOutcome(NoOpt, PyBool(b), "none", FALSE, FALSE)

NoOptFn == [k |-> "none", atom |-> NoAtom, obj |-> NoOpt]
ArgFn(v) == [k |-> "none", atom |-> v, obj |-> NoOpt]

\* A call on opt; the caller goes on with the Option the call returned, if any.
OptCall(op, fn, out) ==
    /\ opt # NoOpt
    /\ steps < MaxSteps
    /\ steps' = steps + 1
    /\ optLast' = [op |-> op, self |-> opt,
                   fnFails |-> fn.k = "raise", fnAtom |-> fn.atom,
                   ret |-> out.ret, val |-> out.val, raised |-> out.raised,
                   called |-> out.called, fnRaised |-> out.fnRaised]
    /\ opt' = IF out.ret # NoOpt THEN out.ret ELSE opt
    /\ UNCHANGED <<heap, crVars, merVars, freeVars, arVars, resVars>>

OptMap == \E f \in OptValueFns : OptCall("map", f, Option_map(opt, f))
OptFilter == \E p \in OptPredFns : OptCall("filter", p, Option_filter(opt, p))
OptFlatMap == \E f \in OptOptionFns : OptCall("flat_map", f, Option_flat_map(opt, f))
OptAndThen == \E f \in OptOptionFns : OptCall("and_then", f, Option_and_then(opt, f))
OptOrElse == \E f \in OptValueFns : OptCall("or_else", f, Option_or_else(opt, f))
OptUnwrap == OptCall("unwrap", NoOptFn, Option_unwrap(opt))
OptContains == \E v \in Vals : OptCall("contains", ArgFn(v), Option_contains(opt, v))
OptGet == \E d \in Vals : OptCall("get", ArgFn(d), Option_get(opt, d))
OptIsSome == OptCall("is_some", NoOptFn, ObserveBool(Option_is_some(opt)))
OptIsNone == OptCall("is_none", NoOptFn, ObserveBool(Option_is_none(opt)))
OptBool == OptCall("bool", NoOptFn, ObserveBool(Option_bool(opt)))

InitOption ==
    /\ steps = 0
    /\ heap = <<>>
    /\ opt \in OptObjs
    /\ optLast = NoOptCall
    /\ IdleChained /\ IdleMulti /\ IdleFree /\ IdleAsync /\ IdleResult

NextOption ==
    \/ OptMap \/ OptFilter \/ OptFlatMap \/ OptAndThen \/ OptOrElse
    \/ OptUnwrap \/ OptContains \/ OptGet \/ OptIsSome \/ OptIsNone \/ OptBool

SpecOption == InitOption /\ [][NextOption]_vars

(***************************************************************************)
(* Result, Ok, Err                                                         *)
(***************************************************************************)

\* isinstance(x, T) for a TypeVar T: a TypeVar is no class, the test raises.
IsInstanceOfTypeVar == "TypeError"

\* An object of class cls with _value set.
ResultObj(cls, value) == [cls |-> cls, value |-> value]

ResOutcome(ret, val, raised, called) ==
    [ret |-> ret, val |-> val, raised |-> raised, called |-> called]

\* Result.__init__, which Ok.__init__ and Err.__init__ call: the isinstance
\* test on T and E raises before _value is assigned.
Result_init(cls, value) == ResOutcome(NoRes, NoAtom, IsInstanceOfTypeVar, FALSE)

\* Result.is_ok and Result.is_err, inherited by Ok and Err.
Result_is_ok(self) == ResOutcome(NoRes, NoAtom, IsInstanceOfTypeVar, FALSE)
Result_is_err(self) == ResOutcome(NoRes, NoAtom, IsInstanceOfTypeVar, FALSE)

\* cls(fn(self._value)): the function is called, then the constructor.
ResApply(cls, fn) ==
    IF fn.k = "raise"
    THEN ResOutcome(NoRes, NoAtom, fn.atom, TRUE)
    ELSE [Result_init(cls, fn.atom) EXCEPT !.called = TRUE]

\* Result.map, overridden by Ok and Err.
Result_map(self, fn) ==
    CASE self.cls = "Ok" -> ResApply("Ok", fn)
      [] self.cls = "Err" -> ResOutcome(self, NoAtom, "none", FALSE)
      [] OTHER -> Result_is_ok(self)

\* Result.unwrap, overridden by Ok and Err.
Result_unwrap(self) ==
    CASE self.cls = "Ok" -> ResOutcome(NoRes, self.value, "none", FALSE)
      [] self.cls = "Err" -> ResOutcome(NoRes, NoAtom, "ValueError", FALSE)
      [] OTHER -> Result_is_err(self)

ResClasses == {"Result", "Ok", "Err"}

\* The Result objects a program can hold: no constructor returns, so these are
\* objects made with cls.__new__(cls) whose _value was assigned from outside.
ResObjs == {ResultObj(c, v) : c \in ResClasses, v \in Atoms}

\* A call of a method on resObj, or of a constructor.
ResCall(op, cls, arg, fn, out) ==
    /\ cr = NoObj /\ mer = NoMer /\ opt = NoOpt /\ ars = <<>> /\ co = NoCo
    /\ red = NoRed
    /\ steps < MaxSteps
    /\ steps' = steps + 1
    /\ resLast' = [op |-> op, cls |-> cls, arg |-> arg, self |-> resObj,
                   fnFails |-> fn.k = "raise", fnAtom |-> fn.atom,
                   ret |-> out.ret, val |-> out.val, raised |-> out.raised,
                   called |-> out.called]
    /\ resObj' = IF out.ret # NoRes THEN out.ret ELSE resObj
    /\ UNCHANGED <<heap, crVars, merVars, freeVars, optVars, arVars>>

\* Result(v), Ok(v), Err(e).
ResNew ==
    /\ steps < MaxSteps
    /\ \E cls \in ResClasses, v \in Atoms :
           ResCall("new", cls, v, NoFn, Result_init(cls, v))

ResMap ==
    /\ resObj # NoRes
    /\ \E f \in ValueFns : ResCall("map", resObj.cls, NoAtom, f, Result_map(resObj, f))
ResUnwrap ==
    /\ resObj # NoRes
    /\ ResCall("unwrap", resObj.cls, NoAtom, NoFn, Result_unwrap(resObj))
ResIsOk ==
    /\ resObj # NoRes
    /\ ResCall("is_ok", resObj.cls, NoAtom, NoFn, Result_is_ok(resObj))
ResIsErr ==
    /\ resObj # NoRes
    /\ ResCall("is_err", resObj.cls, NoAtom, NoFn, Result_is_err(resObj))

InitResult ==
    /\ steps = 0
    /\ heap = <<>>
    /\ resObj \in {NoRes} \cup ResObjs
    /\ resLast = NoResCall
    /\ IdleChained /\ IdleMulti /\ IdleFree /\ IdleOption /\ IdleAsync

NextResult == ResNew \/ ResMap \/ ResUnwrap \/ ResIsOk \/ ResIsErr

SpecResult == InitResult /\ [][NextResult]_vars

(***************************************************************************)
(* AsyncResult                                                             *)
(***************************************************************************)

\* if self.error: an error is set when the slot holds an exception, not None.
Truthy(x) == x # PyNone

\* What a user computation does each time it is run: raise atom, or complete
\* with atom.
CompOutcomes == [k : {"raise"}, atom : Excs] \cup [k : {"ret"}, atom : Vals]

\* An async def given by the user: calling it gives a coroutine to await.
UserComputation == Computation("callable", 0, NoFn, NoAtom, "user", PyNone)

\* AsyncResult.__init__(computation, error): error = PyNone stands for None.
AsyncResult_init(computation, error) ==
    [comp |-> computation, value |-> PyNone, error |-> error,
     preErr |-> error, awaits |-> 0, runs |-> 0]

\* await x for an x that is no awaitable, a call of what is no callable, and
\* a call of a lambda whose variable e was unbound at the end of the except
\* clause that made it.
NotAwaitable == [k |-> "raise", atom |-> "TypeError"]
NotCallable == [k |-> "raise", atom |-> "TypeError"]
Unbound == [k |-> "raise", atom |-> "NameError"]

\* A function applied by a lambda: its failure leaves the lambda; what it
\* returns is a plain value, which await does not accept.
ApplyThenAwait(fn) == IF fn.k = "raise" THEN fn ELSE NotAwaitable

\* await self.computation(): the outcome, for a user computation that
\* completes as out.
RunComputation(a, self, out) ==
    CASE self.comp.kind = "callable" -> out
      [] self.comp.kind = "lambda_error" -> NotAwaitable
      [] self.comp.kind = "lambda_func" -> ApplyThenAwait(self.comp.fn)
      [] self.comp.kind = "lambda_value" -> NotAwaitable
      [] self.comp.kind = "lambda_unbound" -> Unbound
      [] OTHER -> NotCallable

\* Whether running the computation invokes the function given to map or map_err.
InvokesFn(self) == self.comp.kind = "lambda_func"

\* Whether self.computation is something that can be called.
IsCallable(self) ==
    self.comp.kind \in
        {"callable", "lambda_error", "lambda_func", "lambda_value", "lambda_unbound"}

\* Whether await self.computation() can suspend: only a user computation
\* gives an awaitable.
Suspends(self) == self.comp.kind = "callable"

AsyncOutcome(a, ret, val, raised, called, compOut) ==
    [ars |-> a, ret |-> ret, val |-> val, raised |-> raised,
     called |-> called, compOut |-> compOut]

\* A suspended call: Await or map_async on object self, with the function
\* given to map_async and the AsyncResult that function completes with, if any.
Task(op, self, fn, obj) == [op |-> op, self |-> self, fn |-> fn, obj |-> obj]

\* Await up to the await expression: self.computation() is called.
AsyncResult_Await_call(a, i) ==
    LET self == a[i]
        ran == [self EXCEPT !.awaits = @ + 1,
                            !.runs = IF IsCallable(self) THEN @ + 1 ELSE @]
    IN AsyncOutcome([a EXCEPT ![i] = ran], 0, NoAtom, "none", FALSE, NoFn)

\* Mutant: Await that clears the error slot when the computation completes.
AsyncResult_Await_ClearsError(a, i, out) ==
    LET self == a[i]
        res == RunComputation(a, self, out)
    IN IF res.k = "raise"
       THEN AsyncOutcome([a EXCEPT ![i] = [self EXCEPT !.error = res.atom]],
                         0, NoAtom, res.atom, InvokesFn(self), res)
       ELSE AsyncOutcome([a EXCEPT ![i] = [self EXCEPT !.value = res.atom,
                                                       !.error = PyNone]],
                         0, res.atom, "none", InvokesFn(self), res)

\* Mutant: Await that swallows the failure and returns None.
AsyncResult_Await_Swallows(a, i, out) ==
    LET self == a[i]
        res == RunComputation(a, self, out)
    IN IF res.k = "raise"
       THEN AsyncOutcome([a EXCEPT ![i] = [self EXCEPT !.error = res.atom]],
                         0, PyNone, "none", InvokesFn(self), res)
       ELSE AsyncOutcome([a EXCEPT ![i] = [self EXCEPT !.value = res.atom]],
                         0, res.atom, "none", InvokesFn(self), res)

\* AsyncResult.Await from the await expression on: the computation completes
\* or fails, and the slot is assigned then. Nothing is cached: every call
\* runs the computation.
AsyncResult_Await(a, i, out) ==
    LET self == a[i]
        res == RunComputation(a, self, out)
    IN IF res.k = "raise"
       THEN AsyncOutcome([a EXCEPT ![i] = [self EXCEPT !.error = res.atom]],
                         0, NoAtom, res.atom, InvokesFn(self), res)
       ELSE AsyncOutcome([a EXCEPT ![i] = [self EXCEPT !.value = res.atom]],
                         0, res.atom, "none", InvokesFn(self), res)

\* A new AsyncResult in the store.
NewAsync(a, obj, called) ==
    AsyncOutcome(Append(a, obj), Len(a) + 1, NoAtom, "none", called, NoFn)

\* AsyncResult.map: both branches wrap a lambda, so func is not applied here
\* and the except branch is never taken.
AsyncResult_map(a, i, func) ==
    IF Truthy(a[i].error)
    THEN NewAsync(a, AsyncResult_init(
             Computation("lambda_error", i, NoFn, NoAtom, "map", a[i].error), PyNone), FALSE)
    ELSE NewAsync(a, AsyncResult_init(
             Computation("lambda_func", i, func, NoAtom, "map", PyNone), PyNone), FALSE)

AsyncResult_map_err(a, i, func) ==
    IF Truthy(a[i].error)
    THEN NewAsync(a, AsyncResult_init(
             Computation("lambda_func", i, func, NoAtom, "map_err", a[i].error), PyNone), FALSE)
    ELSE AsyncOutcome(a, i, NoAtom, "none", FALSE, NoFn)

\* fn() for a fallback that raises or returns AsyncResult(computation, atom).
AsyncResult_or_else(a, i, fn) ==
    IF Truthy(a[i].error)
    THEN IF fn.k = "raise"
         THEN AsyncOutcome(a, 0, NoAtom, fn.atom, TRUE, NoFn)
         ELSE NewAsync(a, AsyncResult_init(UserComputation, fn.atom), TRUE)
    ELSE AsyncOutcome(a, i, NoAtom, "none", FALSE, NoFn)

AsyncResult_unwrap(a, i) ==
    IF Truthy(a[i].error)
    THEN AsyncOutcome(a, 0, NoAtom, "ValueError", FALSE, NoFn)
    ELSE AsyncOutcome(a, 0, a[i].value, "none", FALSE, NoFn)

AsyncResult_expect(a, i) ==
    IF Truthy(a[i].error)
    THEN AsyncOutcome(a, 0, NoAtom, "ValueError", FALSE, NoFn)
    ELSE AsyncOutcome(a, 0, a[i].value, "none", FALSE, NoFn)

\* A wrapper made by an except clause of map_async: lambda: e, with e unbound.
UnboundWrapper(a, called) ==
    NewAsync(a, AsyncResult_init(
        Computation("lambda_unbound", 0, NoFn, NoAtom, "map_async", PyNone), PyNone), called)

\* AsyncResult.map_async up to await func(self.value): with an error set the
\* wrapper is returned at once, otherwise func is called and the call suspends
\* (ret = 0: nothing returned yet).
AsyncResult_map_async(a, i, func) ==
    IF Truthy(a[i].error)
    THEN NewAsync(a, AsyncResult_init(
             Computation("lambda_error", i, NoFn, NoAtom, "map_async", a[i].error), PyNone), FALSE)
    ELSE AsyncOutcome(a, 0, NoAtom, "none", TRUE, NoFn)

\* new_value.computation() for the AsyncResult j that func completed with: a
\* lambda is run, a user computation only gives its coroutine.
CallComputation(a, j) ==
    CASE a[j].comp.kind = "lambda_func" /\ a[j].comp.fn.k = "raise" -> a[j].comp.fn
      [] a[j].comp.kind = "lambda_unbound" -> Unbound
      [] a[j].comp.kind = "coroutine" -> NotCallable
      [] OTHER -> [k |-> "ret", atom |-> NoAtom]

\* AsyncResult.map_async from await func(self.value) on. func raises, or
\* completes with a plain value (which has no attribute computation:
\* AttributeError), or completes with the AsyncResult j, whose computation is
\* called for print. Every failure is caught and gives lambda: e, otherwise
\* the wrapper is lambda: new_value.
map_async_resume(a, i, func, j) ==
    IF func.k # "obj"
    THEN UnboundWrapper(a, TRUE)
    ELSE LET b == [a EXCEPT ![j].runs =
                       IF IsCallable(a[j]) /\ ~Suspends(a[j]) THEN @ + 1 ELSE @]
         IN IF CallComputation(a, j).k = "raise"
            THEN UnboundWrapper(b, TRUE)
            ELSE NewAsync(b, AsyncResult_init(
                     Computation("lambda_value", j, NoFn, NoAtom, "map_async", PyNone),
                     PyNone), TRUE)

\* Functions given to map_async: the awaitable raises atom, completes with the
\* plain value atom, or completes with an AsyncResult.
AsyncFns ==
    [k : {"raise"}, atom : {"e1"}] \cup [k : {"ret"}, atom : {"v1"}]
    \cup {[k |-> "obj", atom |-> NoAtom]}

\* Fallbacks given to or_else: raise atom, or return AsyncResult(computation, atom).
AsyncFallbacks ==
    [k : {"raise"}, atom : {"e1"}] \cup [k : {"ret"}, atom : {PyNone, "e2"}]

\* A step of a call on object i of the store: what it leaves in the store and
\* which calls are suspended after it.
ArStep(op, i, fn, out, ts) ==
    /\ ars' = out.ars
    /\ arLast' = [op |-> op, self |-> i, pre |-> ars[i],
                  fnFails |-> fn.k = "raise", fnAtom |-> fn.atom,
                  ret |-> out.ret, val |-> out.val, raised |-> out.raised,
                  called |-> out.called, compOut |-> out.compOut]
    /\ tasks' = ts
    /\ UNCHANGED <<heap, co, crVars, merVars, freeVars, optVars, resVars>>

\* A call that is made now, and returns now or suspends.
ArCall(op, i, fn, out, ts) ==
    /\ steps < MaxSteps
    /\ steps' = steps + 1
    /\ ArStep(op, i, fn, out, ts)

\* The suspended call t is resumed and returns.
ArResume(op, i, fn, out, t) ==
    /\ t \in BagToSet(tasks)
    /\ steps' = steps
    /\ ArStep(op, i, fn, out, tasks (-) SetToBag({t}))

\* Await is called on a user computation and suspends in it.
ArAwaitCall ==
    \E i \in DOMAIN ars :
        /\ Suspends(ars[i])
        /\ ArCall("Await_call", i, NoFn, AsyncResult_Await_call(ars, i),
                  tasks (+) SetToBag({Task("Await", i, NoFn, 0)}))

\* Await returns or raises: a suspended Await is resumed when its computation
\* has completed; on what is no user computation the whole call is one step.
ArAwait ==
    \E i \in DOMAIN ars, out \in CompOutcomes :
        \/ /\ ~Suspends(ars[i])
           /\ ArCall("Await", i, NoFn,
                     AsyncResult_Await(AsyncResult_Await_call(ars, i).ars, i, out), tasks)
        \/ ArResume("Await", i, NoFn, AsyncResult_Await(ars, i, out),
                    Task("Await", i, NoFn, 0))
ArMap ==
    \E i \in DOMAIN ars, f \in ValueFns :
        ArCall("map", i, f, AsyncResult_map(ars, i, f), tasks)
ArMapErr ==
    \E i \in DOMAIN ars, f \in ValueFns :
        ArCall("map_err", i, f, AsyncResult_map_err(ars, i, f), tasks)
ArOrElse ==
    \E i \in DOMAIN ars, fn \in AsyncFallbacks :
        ArCall("or_else", i, fn, AsyncResult_or_else(ars, i, fn), tasks)
ArUnwrap == \E i \in DOMAIN ars : ArCall("unwrap", i, NoFn, AsyncResult_unwrap(ars, i), tasks)
ArExpect == \E i \in DOMAIN ars : ArCall("expect", i, NoFn, AsyncResult_expect(ars, i), tasks)

\* map_async is called: it returns at once on a receiver with an error, and
\* otherwise calls func and suspends in it.
ArMapAsyncCall ==
    \E i \in DOMAIN ars, f \in AsyncFns :
        \E j \in IF f.k = "obj" THEN DOMAIN ars ELSE {0} :
            ArCall(IF Truthy(ars[i].error) THEN "map_async" ELSE "map_async_call",
                   i, f, AsyncResult_map_async(ars, i, f),
                   IF Truthy(ars[i].error) THEN tasks
                   ELSE tasks (+) SetToBag({Task("map_async", i, f, j)}))

\* A suspended map_async is resumed when func has completed, and returns.
ArMapAsync ==
    \E t \in BagToSet(tasks) :
        /\ t.op = "map_async"
        /\ ArResume("map_async", t.self, t.fn,
                    map_async_resume(ars, t.self, t.fn, t.obj), t)

\* AsyncResult(computation) or AsyncResult(computation, error).
InitAsync ==
    /\ steps = 0
    /\ heap = <<>>
    /\ \E e \in {PyNone} \cup Excs : ars = <<AsyncResult_init(UserComputation, e)>>
    /\ arLast = NoArCall
    /\ tasks = EmptyBag
    /\ co = NoCo
    /\ IdleChained /\ IdleMulti /\ IdleFree /\ IdleOption /\ IdleResult

NextAsync ==
    \/ ArAwaitCall \/ ArAwait \/ ArMap \/ ArMapErr \/ ArOrElse \/ ArUnwrap
    \/ ArExpect \/ ArMapAsyncCall \/ ArMapAsync

SpecAsync == InitAsync /\ [][NextAsync]_vars

(***************************************************************************)
(* parallel, race, sequence                                                *)
(***************************************************************************)

\* The computations given to a free function: each raises atom or completes
\* with atom when it is run.
AsyncInputs == UNION {[1..n -> CompOutcomes] : n \in 0..MaxComps}

Range(f) == {f[i] : i \in DOMAIN f}

\* AsyncResult(gather()), AsyncResult(race_result()), AsyncResult(sequence_result()):
\* the computation attribute is the coroutine object, not a function.
AsyncOfCoroutine(a, by) ==
    NewAsync(a, AsyncResult_init(
        Computation("coroutine", 0, NoFn, NoAtom, by, PyNone), PyNone), FALSE)

parallel(a, results) == AsyncOfCoroutine(a, "parallel")
race(a, results) == AsyncOfCoroutine(a, "race")
sequence(a, results) == AsyncOfCoroutine(a, "sequence")

\* AsyncResult(merge_result()): merge_result is gather() under another name.
merge_async(a, results) == AsyncOfCoroutine(a, "merge_async")

ResultsOf(inputs) == [i \in DOMAIN inputs |-> inputs[i].atom]
AllSucceed(inputs) == \A i \in DOMAIN inputs : inputs[i].k = "ret"

CoReturn(c, result) == [c EXCEPT !.state = "returned", !.result = result]
CoRaise(c, e) == [c EXCEPT !.state = "raised", !.raised = e]

\* The body of the coroutine up to its first suspension, when the coroutine
\* object is awaited itself: gather begins every computation, the
\* comprehension of sequence_result begins the first, asyncio.wait refuses an
\* empty set and otherwise waits for the tasks it is given.
CoroutineBegin(c) ==
    CASE c.inputs = <<>> /\ c.op = "race" -> CoRaise(c, "ValueError")
      [] c.inputs = <<>> /\ c.op = "reduce_async" -> CoRaise(c, "IndexError")
      [] c.inputs = <<>> /\ c.op \notin {"race", "reduce_async"} -> CoReturn(c, <<>>)
      [] c.inputs # <<>> /\ c.op \in {"parallel", "merge_async"} ->
             [c EXCEPT !.state = "running", !.started = DOMAIN c.inputs]
      [] c.inputs # <<>> /\ c.op \in {"sequence", "reduce_async"} ->
             [c EXCEPT !.state = "running", !.started = {1}]
      [] OTHER -> [c EXCEPT !.state = "running"]

\* The places in the order of completion of the computations that failed.
FailedAt(c) == {k \in DOMAIN c.finished : c.inputs[c.finished[k]].k = "raise"}

\* Whether the future of asyncio.gather is done: a computation has failed, or
\* all have completed.
GatherDone(c) == FailedAt(c) # {} \/ Len(c.finished) = Len(c.inputs)

\* await asyncio.gather(...) when the future is done: the failure that
\* completed first is raised, otherwise the results are returned in the order
\* of the inputs.
gather(c) ==
    IF FailedAt(c) # {}
    THEN CoRaise(c, c.inputs[c.finished[CHOOSE k \in FailedAt(c) :
                                           \A m \in FailedAt(c) : k <= m]].atom)
    ELSE CoReturn(c, ResultsOf(c.inputs))

\* [await r for r in results]: computation i completes; its failure leaves the
\* comprehension, otherwise the next computation is awaited.
sequence_result(c, i) ==
    LET d == [c EXCEPT !.finished = Append(@, i)]
    IN IF c.inputs[i].k = "raise" THEN CoRaise(d, c.inputs[i].atom)
       ELSE IF i = Len(c.inputs) THEN CoReturn(d, ResultsOf(c.inputs))
       ELSE [d EXCEPT !.started = @ \cup {i + 1}]

\* done.pop().result() for the completed task i.
race_result(c, i) ==
    IF c.inputs[i].k = "raise" THEN CoRaise(c, c.inputs[i].atom)
    ELSE CoReturn(c, <<c.inputs[i].atom>>)

\* A free function is called on the inputs; the tasks given to race are
\* already running.
AfCall(op, out) ==
    /\ co.state = "ready" /\ ars = <<>>
    /\ steps = 0
    /\ steps' = 1
    /\ ars' = out.ars
    /\ arLast' = [NoArCall EXCEPT !.op = op, !.self = out.ret, !.ret = out.ret]
    /\ tasks' = tasks
    /\ co' = [co EXCEPT !.op = op, !.state = "created",
                        !.started = IF op = "race" THEN DOMAIN co.inputs ELSE {}]
    /\ UNCHANGED <<heap, crVars, merVars, freeVars, optVars, resVars>>

AfParallel == AfCall("parallel", parallel(ars, co.inputs))
AfRace == AfCall("race", race(ars, co.inputs))
AfSequence == AfCall("sequence", sequence(ars, co.inputs))
AfMergeAsync == AfCall("merge_async", merge_async(ars, co.inputs))

CoStep(c) ==
    /\ co' = c
    /\ UNCHANGED <<heap, steps, ars, arLast, tasks, crVars, merVars, freeVars,
                   optVars, resVars>>

\* The coroutine object is awaited directly, not through Await.
CoRun ==
    /\ co.state = "created"
    /\ CoStep(CoroutineBegin(co))

\* A computation that was begun completes. The tasks of gather and of race
\* complete on their own, also when the coroutine has raised or returned; the
\* coroutine is resumed in a later step. sequence_result awaits the
\* computation itself and goes on with it.
CoFinish ==
    \E i \in co.started \ Range(co.finished) :
        \/ /\ co.op \in {"parallel", "merge_async"}
           /\ co.state \in {"running", "raised"}
           /\ CoStep([co EXCEPT !.finished = Append(@, i)])
        \/ /\ co.op = "sequence" /\ co.state = "running"
           /\ CoStep(sequence_result(co, i))
        \/ /\ co.op = "race" /\ co.state \in {"created", "running", "returned", "raised"}
           /\ CoStep([co EXCEPT !.finished = Append(@, i)])

\* The coroutine is resumed: asyncio.wait returns the completed tasks and
\* race_result takes one of them; await asyncio.gather(...) raises or returns.
CoWake ==
    /\ co.state = "running"
    /\ \/ /\ co.op = "race"
          /\ \E i \in Range(co.finished) : CoStep(race_result(co, i))
       \/ /\ co.op \in {"parallel", "merge_async"}
          /\ GatherDone(co)
          /\ CoStep(gather(co))

InitAsyncFree ==
    /\ steps = 0
    /\ heap = <<>>
    /\ ars = <<>>
    /\ arLast = NoArCall
    /\ tasks = EmptyBag
    /\ \E inputs \in AsyncInputs : co = [NoCo EXCEPT !.inputs = inputs, !.state = "ready"]
    /\ IdleChained /\ IdleMulti /\ IdleFree /\ IdleOption /\ IdleResult

NextAsyncFree ==
    \/ AfParallel \/ AfRace \/ AfSequence \/ AfMergeAsync
    \/ ArAwait
    \/ CoRun \/ CoFinish \/ CoWake

SpecAsyncFree == InitAsyncFree /\ [][NextAsyncFree]_vars

(***************************************************************************)
(* reduce, reduce_async                                                    *)
(***************************************************************************)

\* Binary functions given to reduce: one that raises atom, and one that
\* returns the term f(a, b) of its arguments, so that every call shows in the
\* result. A term is written in prefix form: <<x>> for the value x and
\* <<"f">> \o a \o b for f(a, b).
BinFns == {[k |-> "ret", atom |-> "f"], [k |-> "raise", atom |-> "e1"]}

Leaf(x) == <<x>>
Apply2(a, b) == <<"f">> \o a \o b

\* The loop of reduce_result: reduced = func(reduced, x) for each x after the first.
RECURSIVE LeftFold(_)
LeftFold(xs) ==
    IF Len(xs) = 1 THEN Leaf(xs[1])
    ELSE Apply2(LeftFold(SubSeq(xs, 1, Len(xs) - 1)), Leaf(xs[Len(xs)]))

ReduceOutcome(ret, raised, calls) == [ret |-> ret, raised |-> raised, calls |-> calls]

\* reduce: func(results[0], results[1]) if len(results) > 1 else results[0].
reduce(results, func) ==
    IF Len(results) > 1
    THEN IF func.k = "raise"
         THEN ReduceOutcome(<<>>, func.atom, 1)
         ELSE ReduceOutcome(Apply2(Leaf(results[1]), Leaf(results[2])), "none", 1)
    ELSE IF Len(results) = 1
         THEN ReduceOutcome(Leaf(results[1]), "none", 0)
         ELSE ReduceOutcome(<<>>, "IndexError", 0)

\* AsyncResult(reduce_result()): the coroutine object again.
reduce_async(a, results, func) == AsyncOfCoroutine(a, "reduce_async")

\* reduce_result: the awaited computation i completes; the first result is
\* the start value, each later one is combined with func.
reduce_result(c, i) ==
    LET d == [c EXCEPT !.finished = Append(@, i)]
        x == c.inputs[i]
        e == IF i = 1 THEN d
             ELSE [d EXCEPT !.result = Apply2(c.result, Leaf(x.atom)), !.calls = @ + 1]
        f == IF i = 1 THEN [d EXCEPT !.result = Leaf(x.atom)] ELSE e
    IN IF x.k = "raise" THEN CoRaise(d, x.atom)
       ELSE IF i > 1 /\ c.fn.k = "raise"
            THEN CoRaise([d EXCEPT !.calls = @ + 1], c.fn.atom)
       ELSE IF i = Len(c.inputs) THEN [f EXCEPT !.state = "returned"]
       ELSE [f EXCEPT !.started = @ \cup {i + 1}]

\* Lists of values given to reduce.
ReduceInputs == UNION {[1..n -> Vals] : n \in 0..MaxLen}

RedReduce ==
    /\ red.state = "ready"
    /\ LET out == reduce(red.results, red.fn)
       IN red' = [red EXCEPT !.state = "done", !.ret = out.ret,
                             !.raised = out.raised, !.calls = out.calls]
    /\ UNCHANGED <<heap, steps, input, fLast, crVars, merVars, optVars, resVars, arVars>>

AfReduceAsync ==
    /\ co.fn # NoFn
    /\ red = NoRed
    /\ AfCall("reduce_async", reduce_async(ars, co.inputs, co.fn))

\* The computation reduce_result is awaiting completes.
CoReduce ==
    /\ co.op = "reduce_async" /\ co.state = "running"
    /\ \E i \in co.started \ Range(co.finished) : CoStep(reduce_result(co, i))

\* reduce(results, func) is about to be called, or reduce_async(results, func).
InitReduce ==
    /\ steps = 0
    /\ heap = <<>>
    /\ input = <<>> /\ fLast = NoFreeCall
    /\ ars = <<>> /\ arLast = NoArCall /\ tasks = EmptyBag
    /\ \E func \in BinFns :
          \/ /\ \E results \in ReduceInputs :
                    red = [NoRed EXCEPT !.results = results, !.fn = func, !.state = "ready"]
             /\ co = NoCo
          \/ /\ \E results \in AsyncInputs :
                    co = [NoCo EXCEPT !.inputs = results, !.fn = func, !.state = "ready"]
             /\ red = NoRed
    /\ IdleChained /\ IdleMulti /\ IdleOption /\ IdleResult

NextReduce == RedReduce \/ AfReduceAsync \/ ArAwait \/ CoRun \/ CoReduce

SpecReduce == InitReduce /\ [][NextReduce]_vars

(***************************************************************************)
(* Free functions                                                          *)
(***************************************************************************)

\* The lists of at most MaxLen values and exceptions.
Inputs == UNION {[1..n -> Atoms] : n \in 0..MaxLen}

\* [result for result in results if isinstance(result, E)], E a TypeVar:
\* isinstance raises TypeError on the first element it is asked about.
SelectInstancesOfE(results) ==
    IF results = <<>>
    THEN [raised |-> "none", list |-> <<>>]
    ELSE [raised |-> "TypeError", list |-> <<>>]

\* merge(results): the selected list goes to the constructor's first
\* parameter, the value slot.
merge(h, results) ==
    LET sel == SelectInstancesOfE(results)
        a == Alloc(h, sel.list)
        c == MultiErrorResult_init(a.heap, ListVal(a.ref), NoRef)
    IN IF sel.raised # "none"
       THEN [heap |-> h, ret |-> NoMer, raised |-> sel.raised]
       ELSE [heap |-> c.heap, ret |-> c.obj, raised |-> "none"]

\* add_error(result, error): a list given as result is appended to in place
\* and goes to the constructor's first parameter, the value slot; for any other
\* result the new list [error] goes there. The error sequence is a new list.
add_error(h, result, error) ==
    IF result.list # NoRef
    THEN LET c == MultiErrorResult_init(
                      [h EXCEPT ![result.list] = Append(@, error)], result, NoRef)
         IN [heap |-> c.heap, ret |-> c.obj, raised |-> "none"]
    ELSE LET a == Alloc(h, <<error>>)
             c == MultiErrorResult_init(a.heap, ListVal(a.ref), NoRef)
         IN [heap |-> c.heap, ret |-> c.obj, raised |-> "none"]

\* A free function is called with argument arg (and error, for add_error).
FreeCall(op, arg, error, out) ==
    /\ cr = NoObj /\ mer = NoMer /\ opt = NoOpt /\ ars = <<>> /\ co = NoCo
    /\ resObj = NoRes /\ red = NoRed
    /\ steps = 0
    /\ steps' = 1
    /\ heap' = out.heap
    /\ fLast' = [op |-> op, arg |-> arg, error |-> error, ret |-> out.ret,
                 raised |-> out.raised]
    /\ UNCHANGED <<input, red, crVars, merVars, optVars, resVars, arVars>>

FreeMerge == FreeCall("merge", NoVal, NoAtom, merge(heap, input))

\* add_error is called with the caller's list, whose elements are input.
FreeAddErrorToList ==
    \E error \in Excs :
        LET a == Alloc(heap, input)
        IN FreeCall("add_error", ListVal(a.ref), error,
                    add_error(a.heap, ListVal(a.ref), error))

\* add_error is called with a result that is no list.
FreeAddError ==
    \E result \in Atoms, error \in Excs :
        /\ input = <<>>
        /\ FreeCall("add_error", AtomVal(result), error,
                    add_error(heap, AtomVal(result), error))

InitFree ==
    /\ steps = 0
    /\ heap = <<>>
    /\ input \in Inputs
    /\ fLast = NoFreeCall
    /\ red = NoRed
    /\ IdleChained /\ IdleMulti /\ IdleOption /\ IdleAsync /\ IdleResult

NextFree == FreeMerge \/ FreeAddErrorToList \/ FreeAddError

SpecFree == InitFree /\ [][NextFree]_vars

(***************************************************************************)
(* The library: a behaviour uses one kind of container, or a free function *)
(***************************************************************************)

Init ==
    \/ InitChained \/ InitMulti \/ InitOption \/ InitAsync \/ InitAsyncFree
    \/ InitReduce \/ InitResult \/ InitFree

Next ==
    \/ NextChained \/ NextMulti \/ NextOption \/ NextAsync \/ NextAsyncFree
    \/ NextReduce \/ NextResult \/ NextFree

Spec == Init /\ [][Next]_vars

(***************************************************************************)
(* Properties of ChainedResult                                             *)
(***************************************************************************)

IsPrefix(s, t) == Len(s) <= Len(t) /\ SubSeq(t, 1, Len(s)) = s

\* The last call was op, made on a receiver whose slot is an error / a value.
OnError(op) == crLast.op = op /\ IsException(crLast.self.value)
OnValue(op) == crLast.op = op /\ ~IsException(crLast.self.value)

\* C2: chain on a ChainedResult whose slot is an error never invokes the
\* function and returns a ChainedResult with the same error in its slot and
\* an error sequence equal to the receiver's.
C2_ShortCircuit ==
    OnError("chain") =>
        /\ ~crLast.called
        /\ crLast.raised = "none"
        /\ crLast.ret.value = crLast.self.value
        /\ heap[crLast.ret.errors] = crLast.selfErrors

C2_Witness ==
    /\ OnError("chain")
    /\ ~crLast.fnFails
    /\ crLast.selfErrors # <<>>

\* C3: chain on a success value with a function that fails with e returns a
\* ChainedResult whose slot is e and whose error sequence is the receiver's
\* with e appended; the receiver's slot and error sequence are as before.
C3_FailureAppended ==
    (OnValue("chain") /\ crLast.fnFails) =>
        /\ crLast.called /\ crLast.fnRaised
        /\ crLast.raised = "none"
        /\ crLast.ret.value = crLast.fnAtom
        /\ heap[crLast.ret.errors] = Append(crLast.selfErrors, crLast.fnAtom)
        /\ heap[crLast.self.errors] = crLast.selfErrors

C3_Witness ==
    /\ OnValue("chain") /\ crLast.fnFails
    /\ crLast.selfErrors # <<>>

\* The calls so far are crFail chain calls with failing step functions, from
\* a ChainedResult constructed with a success value and the default history.
FailingChain == crOrigin = "value_default" /\ crFail >= 0

\* C4 as stated: after n chain calls whose step functions each fail, the
\* error history has length n.
C4_LengthIsN == FailingChain => Len(heap[cr.errors]) = crFail

\* C4, amended: after n chain calls whose step functions each fail, the error
\* history has length 0 when n = 0 and length 1 otherwise: only the first
\* step function is invoked, the later calls short-circuit.
C4_LengthAtMostOne ==
    FailingChain =>
        /\ Len(heap[cr.errors]) = IF crFail = 0 THEN 0 ELSE 1
        /\ crFail >= 2 => ~crLast.called

C4_Witness == FailingChain /\ crFail >= 2

\* C5: the error sequence of the ChainedResult returned by chain or map has
\* the receiver's error sequence as a prefix.
C5_HistoryIsPrefix ==
    (crLast.op \in {"chain", "map"} /\ crLast.raised = "none") =>
        IsPrefix(crLast.selfErrors, heap[crLast.ret.errors])

\* C6: in a ChainedResult reached from one constructed with a value and the
\* default history by chain, map and map_err calls, an error in the slot is
\* the last element of a non-empty error sequence.
C6_SlotErrorIsLast ==
    (crOrigin = "value_default" /\ crOps \subseteq {"chain", "map", "map_err"}
        /\ IsException(cr.value)) =>
        /\ heap[cr.errors] # <<>>
        /\ heap[cr.errors][Len(heap[cr.errors])] = cr.value

\* C7: or_else invokes the fallback and returns its result exactly when the
\* slot is an error and the error sequence is non-empty; otherwise the
\* fallback is not invoked and the receiver is returned.
C7_OrElseNeedsHistory ==
    crLast.op = "or_else" =>
        /\ crLast.called <=>
              (IsException(crLast.self.value) /\ crLast.selfErrors # <<>>)
        /\ ~crLast.called => crLast.ret = crLast.self

(***************************************************************************)
(* Properties of MultiErrorResult and merge                                *)
(***************************************************************************)

\* Only add_error and the observers have been called so far.
OnlyAddError ==
    merOps \subseteq {"add_error", "unwrap", "get_errors", "is_multi_err"}

\* C8: unwrap fails exactly when the error sequence is non-empty, whatever the
\* slot holds, and otherwise returns the slot; once add_error has been called,
\* unwrap fails.
C8_UnwrapFailsOnErrors ==
    /\ merLast.op = "unwrap" =>
          /\ (merLast.raised # "none") <=> (merLast.selfErrors # <<>>)
          /\ merLast.raised = "none" => merLast.val = merLast.self.value
    /\ (OnlyAddError /\ "add_error" \in merOps) =>
          MultiErrorResult_unwrap(heap, mer).raised # "none"

C8_Witness ==
    /\ OnlyAddError /\ "add_error" \in merOps
    /\ merLast.op = "unwrap"
    /\ merLast.raised # "none"
    /\ ~IsException(merLast.self.value.atom)

\* C9: map on a MultiErrorResult without errors, with a function that fails
\* with e, returns a MultiErrorResult whose error sequence starts with e, so
\* that get_errors is non-empty and unwrap fails.
C9_MapFailureRecorded ==
    (merLast.op = "map" /\ merLast.selfErrors = <<>> /\ merLast.fnFails) =>
        /\ merLast.raised = "none"
        /\ heap[merLast.ret.errors] # <<>>
        /\ heap[merLast.ret.errors][1] = merLast.fnAtom
        /\ MultiErrorResult_unwrap(heap, merLast.ret).raised # "none"

\* C10: merge returns a MultiErrorResult whose error sequence is the
\* subsequence of the failures of its input, in input order.
C10_MergeCollectsFailures ==
    fLast.op = "merge" =>
        /\ fLast.raised = "none"
        /\ heap[fLast.ret.errors] = SelectSeq(input, IsException)

(***************************************************************************)
(* Properties of all combinators                                           *)
(***************************************************************************)

\* C1: when the function given to a combinator is invoked and fails, the
\* combinator call does not fail and returns a container in its error state:
\* Option.map returns an Option, chain and map of ChainedResult return a
\* ChainedResult whose slot is an error, map of MultiErrorResult returns a
\* MultiErrorResult on which unwrap fails.
C1_FailureContained ==
    /\ (optLast.op = "map" /\ optLast.fnRaised) =>
          optLast.raised = "none" /\ optLast.ret # NoOpt
    /\ (crLast.op \in {"chain", "map"} /\ crLast.fnRaised) =>
          crLast.raised = "none" /\ IsException(crLast.ret.value)
    /\ (merLast.op = "map" /\ merLast.fnRaised) =>
          /\ merLast.raised = "none"
          /\ MultiErrorResult_unwrap(heap, merLast.ret).raised # "none"

(***************************************************************************)
(* Aliasing                                                                *)
(***************************************************************************)

\* C11: the container a combinator returns shares no mutable error state with
\* the receiver: after b = a.map(f) on a MultiErrorResult, add_error calls on
\* b leave a.get_errors() as it was; the ChainedResult returned by chain or
\* map does not hold the receiver's list object.
C11_NoSharedErrors ==
    /\ merIn # NoInput => heap[merIn.errors] = merIn.was
    /\ (crLast.op \in {"chain", "map"} /\ crLast.ret # NoObj) =>
          crLast.ret.errors # crLast.self.errors


(***************************************************************************)
(* AsyncResult properties                                                  *)
(***************************************************************************)

\* The object the last AsyncResult call was made on, as it is after the call.
ArPost == ars[arLast.self]

\* C12: resolution is memoized: however many times Await is called on a
\* container, its computation has run exactly once, and an Await on a
\* container that already holds a resolved value returns that value.
C12_Memoized ==
    /\ \A i \in DOMAIN ars :
           (ars[i].comp.kind = "callable" /\ ars[i].awaits >= 1) => ars[i].runs = 1
    /\ (arLast.op = "Await" /\ arLast.pre.comp.kind = "callable"
            /\ arLast.pre.value # PyNone) =>
           (arLast.raised = "none" /\ arLast.val = arLast.pre.value)

\* C13: resolution is one-shot: a container built without an error never holds
\* both a resolved value and a resolved error, and an Await that returns or
\* raises on a container that already holds a resolved value or a resolved
\* error leaves its value and its error as they were.
C13_OneShot ==
    /\ \A i \in DOMAIN ars :
           (ars[i].comp.kind = "callable" /\ ars[i].preErr = PyNone) =>
               ~(ars[i].value # PyNone /\ ars[i].error # PyNone)
    /\ (arLast.op = "Await" /\ arLast.pre.comp.kind = "callable"
            /\ arLast.pre.preErr = PyNone
            /\ (arLast.pre.value # PyNone \/ arLast.pre.error # PyNone)) =>
           (ArPost.value = arLast.pre.value /\ ArPost.error = arLast.pre.error)

\* C14: an Await whose computation fails with e stores e in the error slot,
\* leaves the value slot as it was and raises e; an Await whose computation
\* completes with v stores v in the value slot and returns v.
C14_AwaitOutcome ==
    arLast.op = "Await" =>
        IF arLast.compOut.k = "raise"
        THEN /\ arLast.raised = arLast.compOut.atom
             /\ ArPost.error = arLast.compOut.atom
             /\ ArPost.value = arLast.pre.value
        ELSE /\ arLast.raised = "none"
             /\ arLast.val = arLast.compOut.atom
             /\ ArPost.value = arLast.compOut.atom

\* An Await of a user computation has failed on a container that already held
\* a value from an earlier Await.
C14_Witness ==
    /\ arLast.op = "Await"
    /\ arLast.pre.comp.kind = "callable"
    /\ arLast.compOut.k = "raise"
    /\ arLast.pre.value \in Vals
    /\ arLast.raised \in Excs

\* C15: map on a container with a pre-known error e never invokes f, neither
\* during map nor when the wrapper is awaited, and awaiting the wrapper leaves
\* the wrapper in the error state with e.
C15_MapOnErrorKeepsError ==
    /\ (arLast.op = "map" /\ Truthy(arLast.pre.error)) => ~arLast.called
    /\ (arLast.op = "Await" /\ arLast.pre.comp.by = "map"
            /\ Truthy(arLast.pre.comp.was)) =>
           (~arLast.called /\ ArPost.error = arLast.pre.comp.was)

\* C16: map on a container without an error applies f during the map call
\* itself; when f fails with e, map returns a wrapper whose error slot holds e.
C16_MapIsEager ==
    (arLast.op = "map" /\ ~Truthy(arLast.pre.error)) =>
        /\ arLast.called
        /\ arLast.raised = "none"
        /\ arLast.fnFails => ars[arLast.ret].error = arLast.fnAtom

\* C17: unwrap and expect fail exactly when an error is set and otherwise
\* return the value slot; a container built with a pre-known error makes both
\* fail in every later state, also after an Await that completed.
C17_UnwrapFailsOnError ==
    /\ arLast.op \in {"unwrap", "expect"} =>
           IF arLast.pre.error # PyNone
           THEN arLast.raised # "none"
           ELSE arLast.raised = "none" /\ arLast.val = arLast.pre.value
    /\ \A i \in DOMAIN ars :
           ars[i].preErr # PyNone =>
               /\ AsyncResult_unwrap(ars, i).raised # "none"
               /\ AsyncResult_expect(ars, i).raised # "none"

\* unwrap has failed on a container built with an error whose Await completed.
C17_Witness ==
    /\ arLast.op = "unwrap"
    /\ arLast.pre.preErr \in Excs
    /\ arLast.pre.value \in Vals
    /\ arLast.raised # "none"


(***************************************************************************)
(* parallel, race, sequence properties                                     *)
(***************************************************************************)

\* The last call was Await on the AsyncResult returned by the free function by.
AwaitedWrapper(by) == arLast.op = "Await" /\ arLast.pre.comp.by = by

\* C18: resolving parallel(computations) whose computations all succeed yields
\* their results in input order, whatever the order in which they complete.
C18_ParallelInOrder ==
    /\ (AwaitedWrapper("parallel") /\ AllSucceed(co.inputs)) =>
           /\ arLast.raised = "none"
           /\ co.state = "returned"
           /\ co.result = ResultsOf(co.inputs)
    /\ (co.op = "parallel" /\ co.state = "returned") =>
           co.result = ResultsOf(co.inputs)

\* C19: resolving race(computations) on a non-empty input returns the result
\* of a computation that has completed; on an empty input resolution fails.
C19_RaceFirstCompleted ==
    /\ (AwaitedWrapper("race") /\ co.inputs # <<>> /\ AllSucceed(co.inputs)) =>
           /\ arLast.raised = "none"
           /\ \E i \in Range(co.finished) : arLast.val = co.inputs[i].atom
    /\ (AwaitedWrapper("race") /\ co.inputs = <<>>) => arLast.raised # "none"
    /\ (co.op = "race" /\ co.state = "returned") =>
           \E i \in Range(co.finished) : co.result = <<co.inputs[i].atom>>

\* C20: resolving sequence(computations) awaits them one at a time in input
\* order: a computation is begun only when every earlier one has completed
\* without failing, and the output holds the results in input order.
C20_SequenceInOrder ==
    /\ (AwaitedWrapper("sequence") /\ AllSucceed(co.inputs)) =>
           /\ arLast.raised = "none"
           /\ co.state = "returned"
           /\ co.result = ResultsOf(co.inputs)
    /\ co.op = "sequence" =>
           \A i \in co.started : \A j \in 1..(i - 1) :
               j \in Range(co.finished) /\ co.inputs[j].k = "ret"
    /\ (co.op = "sequence" /\ co.state = "returned") =>
           co.result = ResultsOf(co.inputs)


(***************************************************************************)
(* reduce properties                                                       *)
(***************************************************************************)

\* C21: on a non-empty list reduce returns the left fold of the list under f
\* and invokes f once less than there are elements; resolving reduce_async
\* yields the same left fold over the awaited results; on an empty list both
\* fail.
C21_ReduceIsLeftFold ==
    /\ (red.state = "done" /\ red.results # <<>> /\ red.fn.k = "ret") =>
           /\ red.raised = "none"
           /\ red.ret = LeftFold(red.results)
           /\ red.calls = Len(red.results) - 1
    /\ (red.state = "done" /\ red.results = <<>>) => red.raised # "none"
    /\ (AwaitedWrapper("reduce_async") /\ co.inputs # <<>>
            /\ AllSucceed(co.inputs) /\ co.fn.k = "ret") =>
           /\ arLast.raised = "none"
           /\ co.state = "returned"
           /\ co.result = LeftFold(ResultsOf(co.inputs))
    /\ (AwaitedWrapper("reduce_async") /\ co.inputs = <<>>) => arLast.raised # "none"


\* C22: merge_async waits for every computation, failed or not, and yields
\* the failures only, in input order: resolving it does not fail, and its
\* coroutine ends only when all computations have completed, returning the
\* failures.
C22_MergeAsyncCollectsFailures ==
    LET IsFailure(x) == x.k = "raise"
        failures == ResultsOf(SelectSeq(co.inputs, IsFailure))
    IN /\ AwaitedWrapper("merge_async") =>
              /\ arLast.raised = "none"
              /\ co.state = "returned"
              /\ co.result = failures
       /\ (co.op = "merge_async" /\ co.state \in {"returned", "raised"}) =>
              /\ co.state = "returned"
              /\ Len(co.finished) = Len(co.inputs)
              /\ co.result = failures


(***************************************************************************)
(* Option properties                                                       *)
(***************************************************************************)

\* An Option(None) or a NoneType; an Option or Some holding a value.
IsAbsent(o) == o.cls \in {"Option", "NoneType"} /\ o.value = PyNone
IsPresent(o) == o.cls \in {"Option", "Some"} /\ o.value \in Vals

\* What the claim says of map on an absent Option: f is never invoked and an
\* absent Option is returned, on which get(d) returns d.
MapOnAbsent ==
    (optLast.op = "map" /\ IsAbsent(optLast.self)) =>
        /\ ~optLast.called
        /\ optLast.raised = "none"
        /\ IsAbsent(optLast.ret)
        /\ Option_is_none(optLast.ret) /\ ~Option_is_some(optLast.ret)
        /\ \A d \in Vals : Option_get(optLast.ret, d).val = d

C25_ObserversAgree ==
    /\ opt # NoOpt =>
           /\ Option_is_some(opt) = ~Option_is_none(opt)
           /\ Option_bool(opt) = Option_is_some(opt)
    /\ (optLast.op = "map" /\ optLast.self.cls = "Some" /\ optLast.ret # NoOpt) =>
           /\ optLast.ret.cls = "Some"
           /\ Option_is_some(optLast.ret)


(***************************************************************************)
(* Result properties                                                       *)
(***************************************************************************)

\* C24: Err(e) and Ok(v) can be built; map on an Err never invokes f and
\* returns a Result with the same error on which is_err() is true and is_ok()
\* is false; map on an Ok with an f that returns gives a Result on which
\* unwrap returns f(v).
C24_ResultMap ==
    /\ (resLast.op = "new" /\ resLast.cls \in {"Ok", "Err"}) =>
           resLast.raised = "none" /\ resLast.ret = ResultObj(resLast.cls, resLast.arg)
    /\ (resLast.op = "map" /\ resLast.self.cls = "Err") =>
           /\ ~resLast.called
           /\ resLast.ret.cls = "Err" /\ resLast.ret.value = resLast.self.value
           /\ Result_is_err(resLast.ret).val = "True"
           /\ Result_is_ok(resLast.ret).val = "False"
    /\ (resLast.op = "map" /\ resLast.self.cls = "Ok" /\ ~resLast.fnFails) =>
           /\ resLast.called
           /\ resLast.raised = "none"
           /\ Result_unwrap(resLast.ret).val = resLast.fnAtom

====
